---- MODULE Spec2Model ----
(***************************************************************************)
(* A model of wau.py: the manifest file (WAU_Manifest), the release        *)
(* selection (get_latest_file, get_version), the per-addon worker thread   *)
(* (process_addon) and the module-level orchestration, over several runs   *)
(* of the program on the same AddOns directory.                            *)
(*                                                                         *)
(* Python strings are modelled as sequences of one-character strings, so   *)
(* that str.split, str.rstrip, str.replace, int() and str.format are       *)
(* computed rather than assumed.                                           *)
(*                                                                         *)
(* Spec is the whole program; FairSpec adds a fair scheduler. SelectorSpec,*)
(* RoundTripSpec and VersionSpec start in the middle of a run with one     *)
(* worker and take get_latest_file, commit and get_version through wider   *)
(* inputs than Spec's.                                                     *)
(***************************************************************************)
EXTENDS Integers, Sequences, FiniteSets, TLC

\* ------------------------------------------------------------------ bounds
MaxAddons == 2      \* addon ids are 1..MaxAddons
MaxRuns == 2        \* number of consecutive runs of the program
MaxReleases == 2    \* length of an addon's latestFiles list

AddonIds == 1..MaxAddons

\* ----------------------------------------------------------------- strings
\* The whitespace characters str.split() and str.rstrip() act on.
Whitespace == {" ", "\t"}

DigitChars == <<"0", "1", "2", "3", "4", "5", "6", "7", "8", "9">>

IsDigit(c) == \E i \in 1..10 : DigitChars[i] = c

DigitVal(c) == (CHOOSE i \in 1..10 : DigitChars[i] = c) - 1

\* True when int(s) succeeds (decimal digits only).
IsInt(s) == Len(s) > 0 /\ \A i \in 1..Len(s) : IsDigit(s[i])

RECURSIVE StrToInt(_)
\* int(s) for a string of decimal digits.
StrToInt(s) ==
    IF Len(s) = 0 THEN 0
    ELSE 10 * StrToInt(SubSeq(s, 1, Len(s) - 1)) + DigitVal(s[Len(s)])

RECURSIVE IntToStr(_)
\* "{}".format(n) for a natural number n.
IntToStr(n) ==
    IF n < 10 THEN <<DigitChars[n + 1]>>
    ELSE IntToStr(n \div 10) \o <<DigitChars[(n % 10) + 1]>>

RECURSIVE rstrip(_)
\* str.rstrip(): drops trailing whitespace.
rstrip(s) ==
    IF Len(s) > 0 /\ s[Len(s)] \in Whitespace
    THEN rstrip(SubSeq(s, 1, Len(s) - 1))
    ELSE s

RECURSIVE split(_)
\* str.split(): the maximal runs of non-whitespace characters, in order.
split(s) ==
    IF Len(s) = 0 THEN <<>>
    ELSE LET rest == split(Tail(s)) IN
         IF s[1] \in Whitespace THEN rest
         ELSE IF Len(s) > 1 /\ s[2] \notin Whitespace
              THEN <<(<<s[1]>> \o rest[1])>> \o Tail(rest)
              ELSE <<(<<s[1]>>)>> \o rest

\* str.replace(from, to) for one-character from and to.
replace(s, from, to) == [i \in 1..Len(s) |-> IF s[i] = from THEN to ELSE s[i]]

\* ---------------------------------------------------------------- manifest
\* WAU_Manifest as constructed before the file is read: no addons, and the
\* attribute `version` not (yet) assigned.
EmptyManifest ==
    [has_version |-> FALSE, version |-> <<>>, keys |-> <<>>, addons |-> <<>>]

\* The dict self.addons is kept as its keys in insertion order (keys) and the
\* entry of each key (addons, a sequence parallel to keys).
KeyIndex(m, id) == CHOOSE i \in 1..Len(m.keys) : m.keys[i] = id

HasKey(m, id) == \E i \in 1..Len(m.keys) : m.keys[i] = id

Entry(m, id) == m.addons[KeyIndex(m, id)]

\* self.addons[id] = {"install_alpha": ..., "version": ...}
SetEntry(m, id, e) ==
    IF HasKey(m, id)
    THEN [m EXCEPT !.addons[KeyIndex(m, id)] = e]
    ELSE [m EXCEPT !.keys = Append(@, id), !.addons = Append(@, e)]

\* True when the body of the loop over the lines raises on this line
\* (IndexError on a missing column, ValueError from int()).
LineRaises(line) ==
    LET cols == split(line) IN
    \/ Len(cols) < 3
    \/ ~IsInt(cols[1])
    \/ ~IsInt(cols[2])

\* The entry a line yields: id, install_alpha = (int(cols[1]) != 0), version.
LineId(line) == StrToInt(split(line)[1])

LineEntry(line) ==
    LET cols == split(line) IN
    [install_alpha |-> StrToInt(cols[2]) # 0, version |-> cols[3]]

RECURSIVE LoadLines(_, _)
\* The loop `for line in f` over the lines after the first.
LoadLines(m, lines) ==
    IF Len(lines) = 0 THEN m
    ELSE LoadLines(SetEntry(m, LineId(lines[1]), LineEntry(lines[1])), Tail(lines))

\* A file on disk: whether it exists, and its lines without their newlines.
NoFile == [exists |-> FALSE, lines |-> <<>>]

MkFile(lines) == [exists |-> TRUE, lines |-> lines]

\* Outcome of WAU_Manifest.__init__: "nofile" when open() raises OSError
\* (caught: the manifest keeps no version attribute), "raise" when a line
\* does not parse (the exception leaves the constructor), else "ok".
LoadStatus(f) ==
    IF ~f.exists THEN "nofile"
    ELSE IF \E i \in 2..Len(f.lines) : LineRaises(f.lines[i]) THEN "raise"
    ELSE "ok"

\* The manifest WAU_Manifest.__init__ builds from a file that loads.
\* f.readline() on an empty file returns the empty string.
LoadedManifest(f) ==
    IF ~f.exists THEN EmptyManifest
    ELSE LET first == IF Len(f.lines) = 0 THEN <<>> ELSE f.lines[1]
             m0 == [EmptyManifest EXCEPT !.has_version = TRUE,
                                         !.version = rstrip(first)]
         IN LoadLines(m0, IF Len(f.lines) = 0 THEN <<>> ELSE Tail(f.lines))

\* update_version as it would be were the version stored under every key.
update_version_every_key(m, addon_id, version) ==
    [m EXCEPT !.addons = [k \in 1..Len(m.keys) |->
                             [m.addons[k] EXCEPT !.version = version]]]

\* update_version as it would be were the entry replaced by a new dict
\* with the default flag.
update_version_new_entry(m, addon_id, version) ==
    [m EXCEPT !.addons[KeyIndex(m, addon_id)] =
                  [install_alpha |-> FALSE, version |-> version]]

\* manifest.update_version(addon_id, version)
update_version(m, addon_id, version) ==
    [m EXCEPT !.addons[KeyIndex(m, addon_id)].version = version]

\* The first line commit writes: "{}\n".format(self.version).
HeaderLine(m) == m.version

\* The line commit writes for the k-th key of the dict.
EntryLine(m, k) ==
    IntToStr(m.keys[k]) \o <<" ">>
        \o <<(IF m.addons[k].install_alpha THEN "1" ELSE "0")>>
        \o <<" ">> \o m.addons[k].version

\* Everything one commit writes, in order.
Serialize(m) == <<HeaderLine(m)>> \o [k \in 1..Len(m.keys) |-> EntryLine(m, k)]

\* ---------------------------------------------------------------- selector
\* None is the empty sequence; a release r is <<r>>.
None == <<>>

Some(r) == <<r>>

RECURSIVE ScanFilesLastWins(_, _, _, _)
\* ScanFiles as it would be with `>=` in place of `>`.
ScanFilesLastWins(files, latest, install_alpha, game_version_flavor) ==
    IF Len(files) = 0 THEN latest
    ELSE LET file == files[1]
             skip == \/ file.gameVersionFlavor # game_version_flavor
                     \/ (~install_alpha /\ file.releaseType # 1)
             newer == latest = None \/ file.fileDate >= latest[1].fileDate
         IN ScanFilesLastWins(Tail(files),
                              IF ~skip /\ newer THEN Some(file) ELSE latest,
                              install_alpha, game_version_flavor)

RECURSIVE ScanFiles(_, _, _, _)
\* The loop of get_latest_file over latest_files, with latest_file (and its
\* date, latest_date) as found so far.
ScanFiles(files, latest, install_alpha, game_version_flavor) ==
    IF Len(files) = 0 THEN latest
    ELSE LET file == files[1]
             skip == \/ file.gameVersionFlavor # game_version_flavor
                     \/ (~install_alpha /\ file.releaseType # 1)
             newer == latest = None \/ file.fileDate > latest[1].fileDate
         IN ScanFiles(Tail(files),
                      IF ~skip /\ newer THEN Some(file) ELSE latest,
                      install_alpha, game_version_flavor)

\* get_latest_file(api, addon_info, install_alpha, game_version_flavor)
get_latest_file(latest_files, install_alpha, game_version_flavor) ==
    ScanFiles(latest_files, None, install_alpha, game_version_flavor)

\* get_version(release): release['displayName'].replace(' ', '_')
get_version(release) == replace(release.displayName, " ", "_")

\* ------------------------------------------------------------ input domains
\* The catalog stamps the remote may answer with.
Stamps == {<<"s">>, <<"t">>}

Release(name, date, type, flavor) ==
    [displayName |-> name, fileDate |-> date, releaseType |-> type,
     gameVersionFlavor |-> flavor]

\* The releases an addon's latestFiles is drawn from: a stable one whose
\* display name holds a space, a later alpha one whose display name holds a
\* tab, and a still later stable one for the other flavor.
ReleasePool ==
    { Release(<<"a", " ">>, 1, 1, "wow_retail"),
      Release(<<"a", "\t">>, 2, 3, "wow_retail"),
      Release(<<"a", " ">>, 3, 1, "wow_classic") }

SeqsUpTo(S, n) == UNION { [1..k -> S] : k \in 0..n }

\* What get_addon_info may answer as an addon's latestFiles.
CatalogResponses == SeqsUpTo(ReleasePool, MaxReleases)

\* The manifest files a user may have written before the first run: a stamp
\* line and one line per addon 1..n, or a file with a line that lacks its
\* version column, or no file at all.
InitialVersions == {<<"a", "_">>}

InitialLine(id, flag, version) == IntToStr(id) \o <<" ", flag, " ">> \o version

InitialFiles ==
    UNION { { MkFile(<<(<<"s">>)>> \o [k \in 1..n |-> InitialLine(k, fl[k], vs[k])]) :
                fl \in [1..n -> {"0", "1"}], vs \in [1..n -> InitialVersions] } :
            n \in 0..MaxAddons }
    \cup { MkFile(<< <<"s">>, <<"1", " ", "0">> >>), NoFile }

\* game_flavor when -g is not passed, and the values -g is documented to take.
DefaultFlavor == "wow_retail"

Flavors == {"wow_retail", "wow_classic"}

\* ------------------------------------------------------------------- state
VARIABLES
    file,               \* wau_manifest.txt on disk
    run,                \* which run of the program this is
    main_pc,            \* where the module-level code is
    forced_update,      \* -f was passed to this run
    game_flavor,        \* the argument of -g, "wow_retail" without it
    manifest,           \* the WAU_Manifest instance
    api_db_version,     \* what get_addon_database_version returned
    loop_idx,           \* position of the spawn loop, then of the join loop
    manifest_lock,      \* 0 when free, else the addon id of the holder
    pc,                 \* per addon id: where its thread is
    installed_version,  \* process_addon's local, per thread
    install_alpha,      \* process_addon's local, per thread
    addon_info,         \* process_addon's local: the latestFiles it was answered
    latest_file,        \* process_addon's local, per thread
    wbuf,               \* lines commit's file object holds unwritten
    witer,              \* position of commit's loop over self.addons
    cause,              \* why a thread ended Failed
    log,                \* per thread: the external operations it performed
    file0,              \* the file as it was when this run started
    manifest0,          \* the manifest as this run loaded it
    prev                \* what the previous run did

vars == <<file, run, main_pc, forced_update, game_flavor, manifest,
          api_db_version, loop_idx, manifest_lock, pc, installed_version,
          install_alpha, addon_info, latest_file, wbuf, witer, cause, log,
          file0, manifest0, prev>>

thread_vars == <<pc, installed_version, install_alpha, addon_info,
                 latest_file, wbuf, witer, cause, log>>

main_vars == <<run, main_pc, forced_update, game_flavor, api_db_version,
               loop_idx, file0, manifest0, prev>>

Terminal == {"UpToDate", "Done", "Failed"}

\* An entry of a thread's log: the operation and, for "update", the version
\* handed to update_version.
Op(op, arg) == [op |-> op, arg |-> arg]

\* How a logged operation went: it returned, or it raised (download_release:
\* returned None); for the version comparison, which way it went.
Ok == <<"ok">>

Err == <<"error">>

Same == <<"same">>

Differs == <<"differs">>

\* Thread t has performed operation op in this run.
Did(t, op) == \E i \in 1..Len(log[t]) : log[t][i].op = op

NoPrev == [valid |-> FALSE, api_db_version |-> <<>>, forced |-> FALSE,
           fastpath |-> FALSE, failed |-> {}, committed |-> FALSE]

\* The state of a freshly started process.
FreshRun ==
    /\ main_pc = "load"
    /\ manifest = EmptyManifest
    /\ api_db_version = <<>>
    /\ loop_idx = 1
    /\ manifest_lock = 0
    /\ pc = [t \in AddonIds |-> "idle"]
    /\ installed_version = [t \in AddonIds |-> <<>>]
    /\ install_alpha = [t \in AddonIds |-> FALSE]
    /\ addon_info = [t \in AddonIds |-> <<>>]
    /\ latest_file = [t \in AddonIds |-> None]
    /\ wbuf = [t \in AddonIds |-> <<>>]
    /\ witer = [t \in AddonIds |-> 1]
    /\ cause = [t \in AddonIds |-> "none"]
    /\ log = [t \in AddonIds |-> <<>>]
    /\ manifest0 = EmptyManifest

Init ==
    /\ file \in InitialFiles
    /\ file0 = file
    /\ run = 1
    /\ forced_update \in BOOLEAN
    /\ game_flavor = DefaultFlavor
    /\ prev = NoPrev
    /\ FreshRun

\* ------------------------------------------------------------ orchestration
\* LoadManifest as it would be were every exception caught in the
\* constructor (`except Exception`): the run goes on with what was read before
\* the bad line.
LoadManifestSwallowsAll ==
    /\ main_pc = "load"
    /\ manifest' = (IF LoadStatus(file) = "raise"
                    THEN [EmptyManifest EXCEPT !.has_version = TRUE,
                                               !.version = rstrip(file.lines[1])]
                    ELSE LoadedManifest(file))
    /\ manifest0' = manifest'
    /\ main_pc' = "query_version"
    /\ UNCHANGED <<file, run, forced_update, game_flavor, api_db_version,
                   loop_idx, manifest_lock, file0, prev>>
    /\ UNCHANGED thread_vars

\* manifest = load_manifest(addons_path): the constructor reads the file; a
\* line that does not parse raises out of the module and the process dies.
LoadManifest ==
    /\ main_pc = "load"
    /\ manifest' = (IF LoadStatus(file) = "raise" THEN manifest
                    ELSE LoadedManifest(file))
    /\ manifest0' = manifest'
    /\ main_pc' = (IF LoadStatus(file) = "raise" THEN "crashed"
                   ELSE "query_version")
    /\ UNCHANGED <<file, run, forced_update, game_flavor, api_db_version, loop_idx,
                   manifest_lock, file0, prev>>
    /\ UNCHANGED thread_vars

\* api_db_version = api.get_addon_database_version(), status 200.
QueryVersion ==
    /\ main_pc = "query_version"
    /\ \E s \in Stamps : api_db_version' = s
    /\ main_pc' = "compare"
    /\ UNCHANGED <<file, run, forced_update, game_flavor, manifest, loop_idx,
                   manifest_lock, file0, manifest0, prev>>
    /\ UNCHANGED thread_vars

\* get_addon_database_version raises (throw_api_error, or the request fails).
QueryVersionFail ==
    /\ main_pc = "query_version"
    /\ main_pc' = "crashed"
    /\ UNCHANGED <<file, run, forced_update, game_flavor, manifest, api_db_version,
                   loop_idx, manifest_lock, file0, manifest0, prev>>
    /\ UNCHANGED thread_vars

\* CompareStamp as it would be with `or` in place of `and`.
CompareStampOr ==
    /\ main_pc = "compare"
    /\ main_pc' = (IF ~manifest.has_version THEN "crashed"
                   ELSE IF api_db_version = manifest.version \/ ~forced_update
                        THEN "skipped"
                        ELSE "update_stamp")
    /\ UNCHANGED <<file, run, forced_update, game_flavor, manifest, api_db_version,
                   loop_idx, manifest_lock, file0, manifest0, prev>>
    /\ UNCHANGED thread_vars

\* if api_db_version == manifest.version and not forced_update: exit(0)
\* Reading manifest.version raises AttributeError when the constructor
\* never assigned it.
CompareStamp ==
    /\ main_pc = "compare"
    /\ main_pc' = (IF ~manifest.has_version THEN "crashed"
                   ELSE IF api_db_version = manifest.version /\ ~forced_update
                        THEN "skipped"
                        ELSE "update_stamp")
    /\ UNCHANGED <<file, run, forced_update, game_flavor, manifest, api_db_version,
                   loop_idx, manifest_lock, file0, manifest0, prev>>
    /\ UNCHANGED thread_vars

\* UpdateStamp as it would be were the new stamp committed at once.
UpdateStampAndCommit ==
    /\ main_pc = "update_stamp"
    /\ manifest' = [manifest EXCEPT !.has_version = TRUE,
                                    !.version = api_db_version]
    /\ file' = MkFile(Serialize(manifest'))
    /\ main_pc' = "spawn"
    /\ loop_idx' = 1
    /\ UNCHANGED <<run, forced_update, game_flavor, api_db_version, manifest_lock,
                   file0, manifest0, prev>>
    /\ UNCHANGED thread_vars

\* UpdateStamp as it would be were the assignment left out.
UpdateStampSkipped ==
    /\ main_pc = "update_stamp"
    /\ main_pc' = "spawn"
    /\ loop_idx' = 1
    /\ UNCHANGED <<file, run, forced_update, game_flavor, manifest, api_db_version,
                   manifest_lock, file0, manifest0, prev>>
    /\ UNCHANGED thread_vars

\* manifest.version = api_db_version
UpdateStamp ==
    /\ main_pc = "update_stamp"
    /\ manifest' = [manifest EXCEPT !.has_version = TRUE,
                                    !.version = api_db_version]
    /\ main_pc' = "spawn"
    /\ loop_idx' = 1
    /\ UNCHANGED <<file, run, forced_update, game_flavor, api_db_version, manifest_lock,
                   file0, manifest0, prev>>
    /\ UNCHANGED thread_vars

\* One iteration of `for addon_id in manifest.addons`: the thread is created
\* and started.
SpawnThread ==
    /\ main_pc = "spawn"
    /\ loop_idx <= Len(manifest.keys)
    /\ pc' = [pc EXCEPT ![manifest.keys[loop_idx]] = "start"]
    /\ loop_idx' = loop_idx + 1
    /\ UNCHANGED <<file, run, main_pc, forced_update, game_flavor, manifest,
                   api_db_version, manifest_lock, file0, manifest0, prev>>
    /\ UNCHANGED <<installed_version, install_alpha, latest_file, addon_info, wbuf,
                   witer, cause, log>>

\* The spawn loop ends and the join loop begins.
SpawnDone ==
    /\ main_pc = "spawn"
    /\ loop_idx > Len(manifest.keys)
    /\ main_pc' = "join"
    /\ loop_idx' = 1
    /\ UNCHANGED <<file, run, forced_update, game_flavor, manifest, api_db_version,
                   manifest_lock, file0, manifest0, prev>>
    /\ UNCHANGED thread_vars

\* JoinThread as it would be were the thread not waited for (a join with a
\* timeout that has run out).
JoinThreadNoWait ==
    /\ main_pc = "join"
    /\ loop_idx <= Len(manifest.keys)
    /\ loop_idx' = loop_idx + 1
    /\ UNCHANGED <<file, run, main_pc, forced_update, game_flavor, manifest,
                   api_db_version, manifest_lock, file0, manifest0, prev>>
    /\ UNCHANGED thread_vars

\* thread.join() returns once that thread has ended.
JoinThread ==
    /\ main_pc = "join"
    /\ loop_idx <= Len(manifest.keys)
    /\ pc[manifest.keys[loop_idx]] \in Terminal
    /\ loop_idx' = loop_idx + 1
    /\ UNCHANGED <<file, run, main_pc, forced_update, game_flavor, manifest,
                   api_db_version, manifest_lock, file0, manifest0, prev>>
    /\ UNCHANGED thread_vars

\* The join loop ends; the module runs off its end (exit status 0).
Exit ==
    /\ main_pc = "join"
    /\ loop_idx > Len(manifest.keys)
    /\ main_pc' = "exited"
    /\ UNCHANGED <<file, run, forced_update, game_flavor, manifest, api_db_version,
                   loop_idx, manifest_lock, file0, manifest0, prev>>
    /\ UNCHANGED thread_vars

\* What the run that just ended did, as the next run's history.
Summary ==
    [valid |-> api_db_version # <<>>,
     api_db_version |-> api_db_version,
     forced |-> forced_update,
     fastpath |-> main_pc = "skipped",
     failed |-> {t \in AddonIds : pc[t] = "Failed"},
     committed |-> \E t \in AddonIds : pc[t] = "Done"]

\* The program is started again on the same AddOns directory.
NextRun ==
    /\ main_pc \in {"skipped", "exited", "crashed"}
    /\ run < MaxRuns
    /\ run' = run + 1
    /\ forced_update' \in BOOLEAN
    /\ prev' = Summary
    /\ file0' = file
    /\ main_pc' = "load"
    /\ manifest' = EmptyManifest
    /\ manifest0' = EmptyManifest
    /\ api_db_version' = <<>>
    /\ loop_idx' = 1
    /\ manifest_lock' = 0
    /\ pc' = [t \in AddonIds |-> "idle"]
    /\ installed_version' = [t \in AddonIds |-> <<>>]
    /\ install_alpha' = [t \in AddonIds |-> FALSE]
    /\ addon_info' = [t \in AddonIds |-> <<>>]
    /\ latest_file' = [t \in AddonIds |-> None]
    /\ wbuf' = [t \in AddonIds |-> <<>>]
    /\ witer' = [t \in AddonIds |-> 1]
    /\ cause' = [t \in AddonIds |-> "none"]
    /\ log' = [t \in AddonIds |-> <<>>]
    /\ UNCHANGED <<file, game_flavor>>

\* ------------------------------------------------------------ process_addon
\* process_addon returns or dies in thread t: the thread ends in state `how`
\* (for the reason `why`) and the locals of its frames are gone.
ThreadEnds(t, how, why) ==
    /\ pc' = [pc EXCEPT ![t] = how]
    /\ cause' = [cause EXCEPT ![t] = why]
    /\ installed_version' = [installed_version EXCEPT ![t] = <<>>]
    /\ install_alpha' = [install_alpha EXCEPT ![t] = FALSE]
    /\ addon_info' = [addon_info EXCEPT ![t] = <<>>]
    /\ latest_file' = [latest_file EXCEPT ![t] = None]
    /\ wbuf' = [wbuf EXCEPT ![t] = <<>>]
    /\ witer' = [witer EXCEPT ![t] = 1]

\* installed_version = manifest.addons[addon_id]['version'], and install_alpha
\* likewise, read without the lock.
ReadEntry(t) ==
    /\ pc[t] = "start"
    /\ installed_version' = [installed_version EXCEPT ![t] = Entry(manifest, t).version]
    /\ install_alpha' = [install_alpha EXCEPT ![t] = Entry(manifest, t).install_alpha]
    /\ pc' = [pc EXCEPT ![t] = "query"]
    /\ UNCHANGED <<file, manifest, manifest_lock, latest_file, addon_info, wbuf,
                   witer, cause, log>>
    /\ UNCHANGED main_vars

\* addon_info = api.get_addon_info(addon_id) answers with a latestFiles list
\* out of `responses`, and
\* latest_file = get_latest_file(api, addon_info, install_alpha, game_flavor).
QueryAndSelect(t, responses) ==
    /\ pc[t] = "query"
    /\ \E latest_files \in responses :
          /\ addon_info' = [addon_info EXCEPT ![t] = latest_files]
          /\ latest_file' = [latest_file EXCEPT ![t] =
                get_latest_file(latest_files, install_alpha[t], game_flavor)]
    /\ log' = [log EXCEPT ![t] = Append(@, Op("query", Ok))]
    /\ pc' = [pc EXCEPT ![t] = "version"]
    /\ UNCHANGED <<file, manifest, manifest_lock, installed_version,
                   install_alpha, wbuf, witer, cause>>
    /\ UNCHANGED main_vars

GetAddonInfo(t) == QueryAndSelect(t, CatalogResponses)

\* api.get_addon_info raises: the thread dies with the exception.
GetAddonInfoFail(t) ==
    /\ pc[t] = "query"
    /\ log' = [log EXCEPT ![t] = Append(@, Op("query", Err))]
    /\ ThreadEnds(t, "Failed", "query")
    /\ UNCHANGED <<file, manifest, manifest_lock>>
    /\ UNCHANGED main_vars

\* latest_version = get_version(latest_file), which subscripts latest_file and
\* so raises TypeError on None; then `if latest_version != installed_version`.
\* name = addon_info['name'] is the last read of addon_info.
CompareVersion(t) ==
    /\ pc[t] = "version"
    /\ IF latest_file[t] = None
       THEN /\ ThreadEnds(t, "Failed", "select")
            /\ log' = [log EXCEPT ![t] = Append(@, Op("select_none", Err))]
       ELSE IF get_version(latest_file[t][1]) # installed_version[t]
            THEN /\ log' = [log EXCEPT ![t] = Append(@, Op("select", Differs))]
                 /\ pc' = [pc EXCEPT ![t] = "download"]
                 /\ addon_info' = [addon_info EXCEPT ![t] = <<>>]
                 /\ UNCHANGED <<installed_version, install_alpha,
                                latest_file, wbuf, witer, cause>>
            ELSE /\ log' = [log EXCEPT ![t] = Append(@, Op("select", Same))]
                 /\ ThreadEnds(t, "UpToDate", "none")
    /\ UNCHANGED <<file, manifest, manifest_lock>>
    /\ UNCHANGED main_vars

\* zip_path = download_release(addons_path, latest_file) returns the path.
Download(t) ==
    /\ pc[t] = "download"
    /\ log' = [log EXCEPT ![t] = Append(@, Op("fetch", Ok))]
    /\ pc' = [pc EXCEPT ![t] = "erase"]
    /\ UNCHANGED <<file, manifest, manifest_lock, installed_version,
                   install_alpha, latest_file, addon_info, wbuf, witer, cause>>
    /\ UNCHANGED main_vars

\* DownloadFail as it would be without `if zip_path != None`.
DownloadFailGoesOn(t) ==
    /\ pc[t] = "download"
    /\ log' = [log EXCEPT ![t] = Append(@, Op("fetch", Err))]
    /\ pc' = [pc EXCEPT ![t] = "erase"]
    /\ UNCHANGED <<file, manifest, manifest_lock, installed_version,
                   install_alpha, latest_file, addon_info, wbuf, witer, cause>>
    /\ UNCHANGED main_vars

\* download_release catches an exception and returns None; process_addon
\* then does nothing more.
DownloadFail(t) ==
    /\ pc[t] = "download"
    /\ log' = [log EXCEPT ![t] = Append(@, Op("fetch", Err))]
    /\ ThreadEnds(t, "Failed", "fetch")
    /\ UNCHANGED <<file, manifest, manifest_lock>>
    /\ UNCHANGED main_vars

\* erase_local(addons_path, latest_file); it swallows its own errors.
EraseLocal(t) ==
    /\ pc[t] = "erase"
    /\ log' = [log EXCEPT ![t] = Append(@, Op("erase", Ok))]
    /\ pc' = [pc EXCEPT ![t] = "extract"]
    /\ UNCHANGED <<file, manifest, manifest_lock, installed_version,
                   install_alpha, latest_file, addon_info, wbuf, witer, cause>>
    /\ UNCHANGED main_vars

\* extract_release succeeds, then delete_release_cache (never raises).
ExtractRelease(t) ==
    /\ pc[t] = "extract"
    /\ log' = [log EXCEPT ![t] = Append(@, Op("extract", Ok))]
    /\ pc' = [pc EXCEPT ![t] = "acquire"]
    /\ UNCHANGED <<file, manifest, manifest_lock, installed_version,
                   install_alpha, latest_file, addon_info, wbuf, witer, cause>>
    /\ UNCHANGED main_vars

\* ExtractFail as it would be were the extraction run under a lock taken
\* with acquire() and not released on the exception path.
ExtractFailHoldingLock(t) ==
    /\ pc[t] = "extract"
    /\ log' = [log EXCEPT ![t] = Append(@, Op("extract", Err))]
    /\ manifest_lock' = t
    /\ ThreadEnds(t, "Failed", "extract")
    /\ UNCHANGED <<file, manifest>>
    /\ UNCHANGED main_vars

\* extract_release raises (bad zip, I/O error): the thread dies.
ExtractFail(t) ==
    /\ pc[t] = "extract"
    /\ log' = [log EXCEPT ![t] = Append(@, Op("extract", Err))]
    /\ ThreadEnds(t, "Failed", "extract")
    /\ UNCHANGED <<file, manifest, manifest_lock>>
    /\ UNCHANGED main_vars

\* AcquireLock as it would be were the lock not waited for.
AcquireLockNoWait(t) ==
    /\ pc[t] = "acquire"
    /\ manifest_lock' = t
    /\ pc' = [pc EXCEPT ![t] = "update"]
    /\ UNCHANGED <<file, manifest, installed_version, install_alpha,
                   latest_file, addon_info, wbuf, witer, cause, log>>
    /\ UNCHANGED main_vars

\* `with manifest_lock:` is entered: Lock.acquire() returns.
AcquireLock(t) ==
    /\ pc[t] = "acquire"
    /\ manifest_lock = 0
    /\ manifest_lock' = t
    /\ pc' = [pc EXCEPT ![t] = "update"]
    /\ UNCHANGED <<file, manifest, installed_version, install_alpha,
                   latest_file, addon_info, wbuf, witer, cause, log>>
    /\ UNCHANGED main_vars

\* manifest.update_version(addon_id, latest_version)
UpdateVersion(t) ==
    /\ pc[t] = "update"
    /\ manifest' = update_version(manifest, t, get_version(latest_file[t][1]))
    /\ log' = [log EXCEPT ![t] =
          Append(@, Op("update", get_version(latest_file[t][1])))]
    /\ pc' = [pc EXCEPT ![t] = "commit_open"]
    /\ UNCHANGED <<file, manifest_lock, installed_version, install_alpha,
                   latest_file, addon_info, wbuf, witer, cause>>
    /\ UNCHANGED main_vars

\* ------------------------------------------------------------------ commit
\* commit writes through a buffered file object: open() truncates the file
\* on disk at once, the writes collect in the object's buffer (wbuf), and the
\* buffer reaches the disk when the `with` block closes the file (a manifest
\* of a few lines is far smaller than the buffer).
\*
\* Writing `new` at line offset pos of a file: lines before pos are kept
\* (a gap left by a truncation reads back as filler), lines under the written
\* range are replaced, lines after it are kept.
Filler == <<"?">>

WriteAt(lines, pos, new) ==
    LET base == lines \o [k \in 1..(pos - Len(lines)) |-> Filler] IN
    SubSeq(base, 1, pos) \o new \o SubSeq(base, pos + Len(new) + 1, Len(base))

\* open(self.manifest_path, "w") succeeds: the file is created or truncated.
CommitOpen(t) ==
    /\ pc[t] = "commit_open"
    /\ file' = MkFile(<<>>)
    /\ wbuf' = [wbuf EXCEPT ![t] = <<>>]
    /\ witer' = [witer EXCEPT ![t] = 1]
    /\ pc' = [pc EXCEPT ![t] = "commit_header"]
    /\ UNCHANGED <<manifest, manifest_lock, installed_version, install_alpha,
                   latest_file, addon_info, cause, log>>
    /\ UNCHANGED main_vars

\* CommitOpenFail as it would be were the lock taken with acquire() and
\* released with release() after commit, with no try/finally.
CommitOpenFailKeepsLock(t) ==
    /\ pc[t] = "commit_open"
    /\ log' = [log EXCEPT ![t] = Append(@, Op("commit", Err))]
    /\ ThreadEnds(t, "Failed", "commit")
    /\ UNCHANGED <<file, manifest, manifest_lock>>
    /\ UNCHANGED main_vars

\* open() raises OSError: the exception leaves `with manifest_lock`, which
\* releases the lock, and the thread dies.
CommitOpenFail(t) ==
    /\ pc[t] = "commit_open"
    /\ manifest_lock' = (IF manifest_lock = t THEN 0 ELSE manifest_lock)
    /\ log' = [log EXCEPT ![t] = Append(@, Op("commit", Err))]
    /\ ThreadEnds(t, "Failed", "commit")
    /\ UNCHANGED <<file, manifest>>
    /\ UNCHANGED main_vars

\* f.write("{}\n".format(self.version)) into the file object's buffer.
CommitWriteHeader(t) ==
    /\ pc[t] = "commit_header"
    /\ wbuf' = [wbuf EXCEPT ![t] = Append(@, HeaderLine(manifest))]
    /\ pc' = [pc EXCEPT ![t] = "commit_entries"]
    /\ UNCHANGED <<file, manifest, manifest_lock, installed_version,
                   install_alpha, latest_file, addon_info, witer, cause, log>>
    /\ UNCHANGED main_vars

\* One iteration of `for key, data in self.addons.items()`: the entry's line,
\* as the dict holds it now, goes into the buffer.
CommitWriteEntry(t) ==
    /\ pc[t] = "commit_entries"
    /\ witer[t] <= Len(manifest.keys)
    /\ wbuf' = [wbuf EXCEPT ![t] = Append(@, EntryLine(manifest, witer[t]))]
    /\ witer' = [witer EXCEPT ![t] = @ + 1]
    /\ UNCHANGED <<file, manifest, manifest_lock, pc, installed_version,
                   install_alpha, latest_file, addon_info, cause, log>>
    /\ UNCHANGED main_vars

\* The loop is over: `with open(...)` closes the file, which writes the
\* buffer out; then `with manifest_lock` releases the lock and process_addon
\* returns.
CommitClose(t) ==
    /\ pc[t] = "commit_entries"
    /\ witer[t] > Len(manifest.keys)
    /\ file' = MkFile(WriteAt(file.lines, 0, wbuf[t]))
    /\ manifest_lock' = (IF manifest_lock = t THEN 0 ELSE manifest_lock)
    /\ log' = [log EXCEPT ![t] = Append(@, Op("commit", Ok))]
    /\ ThreadEnds(t, "Done", "none")
    /\ UNCHANGED manifest
    /\ UNCHANGED main_vars

\* ------------------------------------------------------------ specification
Next ==
    \/ LoadManifest
    \/ QueryVersion
    \/ QueryVersionFail
    \/ CompareStamp
    \/ UpdateStamp
    \/ SpawnThread
    \/ SpawnDone
    \/ JoinThread
    \/ Exit
    \/ NextRun
    \/ \E t \in AddonIds : ReadEntry(t)
    \/ \E t \in AddonIds : GetAddonInfo(t)
    \/ \E t \in AddonIds : GetAddonInfoFail(t)
    \/ \E t \in AddonIds : CompareVersion(t)
    \/ \E t \in AddonIds : Download(t)
    \/ \E t \in AddonIds : DownloadFail(t)
    \/ \E t \in AddonIds : EraseLocal(t)
    \/ \E t \in AddonIds : ExtractRelease(t)
    \/ \E t \in AddonIds : ExtractFail(t)
    \/ \E t \in AddonIds : AcquireLock(t)
    \/ \E t \in AddonIds : UpdateVersion(t)
    \/ \E t \in AddonIds : CommitOpen(t)
    \/ \E t \in AddonIds : CommitOpenFail(t)
    \/ \E t \in AddonIds : CommitWriteHeader(t)
    \/ \E t \in AddonIds : CommitWriteEntry(t)
    \/ \E t \in AddonIds : CommitClose(t)

Spec == Init /\ [][Next]_vars

\* ------------------------------------------------------------------ claims
\* Thread t is inside `with manifest_lock`.
InCritical(t) == pc[t] \in {"update", "commit_open", "commit_header", "commit_entries"}

\* The run has ended with exit status 0.
ExitedOk == main_pc \in {"skipped", "exited"}

\* The manifest file holds one stamp line and one line per entry of the
\* manifest, each of which loads.
FileComplete ==
    /\ file.exists
    /\ Len(file.lines) = 1 + Len(manifest.keys)
    /\ LoadStatus(file) = "ok"
    /\ LoadedManifest(file).keys = manifest.keys

\* The lines of the file that load as the entry of addon t.
LinesOf(t) ==
    {i \in 2..Len(file.lines) : ~LineRaises(file.lines[i]) /\ LineId(file.lines[i]) = t}

\* C1: at most one thread is between acquiring manifest_lock and releasing
\* it, i.e. inside update_version/commit, and that thread holds the lock.
C1_MutualExclusion ==
    /\ Cardinality({t \in AddonIds : InCritical(t)}) <= 1
    /\ \A t \in AddonIds : InCritical(t) => manifest_lock = t

\* C1 witness: one thread is writing the manifest while another waits for
\* the lock.
C1_Witness ==
    \E t, u \in AddonIds : t # u /\ pc[t] = "commit_entries" /\ pc[u] = "acquire"

\* C2: when the run has ended with every worker Done, the file loads, loads
\* to the in-memory manifest, and holds for every entry the version its
\* worker handed to update_version.
C2_AllUpdatesPersisted ==
    (/\ main_pc = "exited"
     /\ Len(manifest.keys) > 0
     /\ \A t \in AddonIds : HasKey(manifest, t) => pc[t] = "Done")
    => /\ LoadStatus(file) = "ok"
       /\ LoadedManifest(file) = manifest
       /\ \A t \in AddonIds : HasKey(manifest, t) =>
             \E i \in 1..Len(log[t]) :
                /\ log[t][i].op = "update"
                /\ Entry(LoadedManifest(file), t).version = log[t][i].arg

\* Where C2 fails, a version token holding whitespace was recorded: with
\* whitespace-free tokens the file of a run whose workers are all Done loads
\* to the in-memory manifest under every interleaving.
NoWhitespace(s) == \A i \in 1..Len(s) : s[i] \notin Whitespace

UpdatesPersistedWhenWhitespaceFree ==
    (\A t \in AddonIds : \A i \in 1..Len(log[t]) : NoWhitespace(log[t][i].arg))
    => C2_AllUpdatesPersisted

\* C3: once the run has loaded the manifest and gone on to its workers, the
\* file on disk is a complete manifest in every state.
C3_CommitAtomic ==
    main_pc \in {"spawn", "join", "exited"} => FileComplete

\* C4: when the run has ended and no worker got as far as update_version,
\* nothing was committed, the file is as it was before the run, and yet the
\* in-memory stamp is the fetched one.
C4_NoStampAdvanceWithoutProgress ==
    (/\ main_pc = "exited"
     /\ \A t \in AddonIds : pc[t] \in {"idle", "UpToDate", "Failed"} /\ ~Did(t, "update"))
    => /\ \A t \in AddonIds : ~Did(t, "commit")
       /\ file = file0
       /\ LoadedManifest(file).version = manifest0.version
       /\ manifest.version = api_db_version

\* C4 witness: such a run ended with workers and with a fetched stamp that
\* differs from the stored one.
C4_Witness ==
    /\ main_pc = "exited"
    /\ \A t \in AddonIds : pc[t] \in {"UpToDate", "Failed"} /\ ~Did(t, "update")
    /\ \E t \in AddonIds : pc[t] = "UpToDate"
    /\ api_db_version # manifest0.version

\* C5: a worker that failed at the catalog query, the fetch or the
\* extraction leaves its entry as loaded, in memory and in every line the
\* file holds for it.
C5_FailedEntryUntouched ==
    \A t \in AddonIds :
        (pc[t] = "Failed" /\ cause[t] \in {"query", "fetch", "extract"})
        => /\ Entry(manifest, t) = Entry(manifest0, t)
           /\ \A i \in LinesOf(t) : LineEntry(file.lines[i]) = Entry(manifest0, t)

\* C5 witness: a worker failed at the extraction and the file was then
\* rewritten by another worker's commit.
C5_Witness ==
    \E t, u \in AddonIds :
        /\ pc[t] = "Failed" /\ cause[t] = "extract"
        /\ pc[u] = "Done"
        /\ file # file0
        /\ LinesOf(t) # {}

\* C6: in a run without -f that fetched the same stamp as the run before it
\* (itself a run without -f), every item whose worker failed in that run has
\* had its worker spawned and its catalog query made by the time the run
\* ends.
C6_FailedItemRetried ==
    (/\ run >= 2
     /\ ExitedOk
     /\ ~forced_update
     /\ prev.valid
     /\ ~prev.forced
     /\ prev.api_db_version = api_db_version)
    => \A t \in prev.failed : pc[t] # "idle" /\ Did(t, "query")

\* C7: in the second of two runs without -f that fetched the same stamp, no
\* worker queries the catalog, whatever the first run did.
C7_Idempotent ==
    (/\ run >= 2
     /\ ~forced_update
     /\ prev.valid
     /\ ~prev.forced
     /\ prev.api_db_version = api_db_version)
    => \A t \in AddonIds : ~Did(t, "query")

\* C7 as amended: the same, when the first run took the fast path or
\* completed at least one commit.
C7_IdempotentAfterCommit ==
    (/\ run >= 2
     /\ ~forced_update
     /\ prev.valid
     /\ ~prev.forced
     /\ prev.api_db_version = api_db_version
     /\ (prev.fastpath \/ prev.committed))
    => \A t \in AddonIds : pc[t] = "idle" /\ ~Did(t, "query")

\* C7 witness: the second run ended on the fast path after a first run that
\* committed.
C7_Witness ==
    /\ run >= 2
    /\ ~forced_update
    /\ ~prev.forced
    /\ prev.committed
    /\ prev.failed # {}
    /\ prev.api_db_version = api_db_version
    /\ main_pc = "skipped"

\* C8: a run ends on the fast path exactly when the fetched stamp equals the
\* loaded one and -f was not passed, and then no thread was spawned, nothing
\* was queried, fetched, erased, extracted or committed, and manifest and
\* file are as loaded.
C8_FastPath ==
    /\ main_pc = "skipped" =>
          /\ api_db_version = manifest0.version /\ ~forced_update
          /\ \A t \in AddonIds : pc[t] = "idle" /\ log[t] = <<>>
          /\ manifest = manifest0
          /\ file = file0
          /\ manifest_lock = 0
    /\ (/\ main_pc \in {"skipped", "update_stamp", "spawn", "join", "exited"}
        /\ api_db_version = manifest0.version
        /\ ~forced_update)
       => main_pc = "skipped"

\* C8 witness: a run with addons in its manifest ended on the fast path.
C8_Witness ==
    /\ main_pc = "skipped"
    /\ Len(manifest.keys) > 0

\* C9: a worker whose selection returned None does not fail, and fetches,
\* erases, extracts and records nothing.
C9_NoneIsUpToDate ==
    \A t \in AddonIds :
        Did(t, "select_none")
        => /\ pc[t] = "UpToDate"
           /\ ~Did(t, "fetch") /\ ~Did(t, "erase") /\ ~Did(t, "extract")
           /\ ~Did(t, "update") /\ ~Did(t, "commit")

\* C10: a run that found no manifest file, got its stamp from the catalog
\* and compared it has not died: the manifest has a version to compare with,
\* no thread is spawned for its empty entry map, and the run goes on to end
\* with status 0.
C10_NoFileRunSucceeds ==
    (~file0.exists /\ api_db_version # <<>> /\ main_pc # "compare")
    => /\ main_pc # "crashed"
       /\ manifest.has_version
       /\ manifest.keys = <<>>
       /\ \A t \in AddonIds : pc[t] = "idle"

\* Any step of worker t: one statement of process_addon, or of the commit it
\* calls.
WorkerStep(t) ==
    \/ ReadEntry(t) \/ GetAddonInfo(t) \/ GetAddonInfoFail(t)
    \/ CompareVersion(t) \/ Download(t) \/ DownloadFail(t) \/ EraseLocal(t)
    \/ ExtractRelease(t) \/ ExtractFail(t) \/ AcquireLock(t)
    \/ UpdateVersion(t) \/ CommitOpen(t) \/ CommitOpenFail(t)
    \/ CommitWriteHeader(t) \/ CommitWriteEntry(t) \/ CommitClose(t)

\* Worker t has been started and has not ended.
Running(t) == pc[t] \notin Terminal \cup {"idle"}

\* The failures of Selecting, Fetching and Installing.
EarlyCauses == {"query", "select", "fetch", "extract"}

\* A step in which worker i ends Failed in Selecting, Fetching or Installing.
FailsEarly(i) ==
    /\ Running(i)
    /\ pc'[i] = "Failed"
    /\ cause'[i] \in EarlyCauses

\* What is worker j's own: its position, its locals and what it has done.
Own(j) ==
    <<pc[j], installed_version[j], install_alpha[j], addon_info[j],
      latest_file[j], wbuf[j], witer[j], cause[j], log[j]>>

\* The terminal state the outcomes of a worker's own operations lead to.
OutcomeOf(l) ==
    IF l = <<>> THEN "none"
    ELSE LET last == l[Len(l)] IN
         IF last = Op("commit", Ok) THEN "Done"
         ELSE IF last = Op("select", Same) THEN "UpToDate"
         ELSE IF last.arg = Err THEN "Failed"
         ELSE "none"

\* The file holds the line commit writes for the entry of j as it is in
\* memory.
HoldsLineOf(j) ==
    \E k \in 2..Len(file.lines) :
        file.lines[k] = EntryLine(manifest, KeyIndex(manifest, j))

\* C11: a step in which worker i fails in Selecting, Fetching or Installing
\* changes nothing of any other worker j, nor the manifest, the lock, the file
\* or the orchestrator; a running worker can always take a step unless it
\* waits for the lock, and then the lock is held by a running worker, never
\* by one that has ended; the terminal state of every worker is the one its
\* own operations' outcomes lead to; and when the run has ended with i Failed
\* and j Done, the file holds j's line with the version j recorded.
C11_FailureIsolation ==
    /\ [][\A i \in AddonIds : FailsEarly(i) =>
             /\ \A j \in AddonIds \ {i} : Own(j)' = Own(j)
             /\ UNCHANGED <<manifest, manifest_lock, file, main_pc, loop_idx>>]_vars
    /\ [](\A j \in AddonIds : Running(j) =>
             \/ ENABLED WorkerStep(j)
             \/ /\ pc[j] = "acquire"
                /\ manifest_lock \in AddonIds \ {j}
                /\ InCritical(manifest_lock))
    /\ [](\A j \in AddonIds : pc[j] \in Terminal => pc[j] = OutcomeOf(log[j]))
    /\ [](\A i, j \in AddonIds :
             (/\ main_pc = "exited"
              /\ pc[i] = "Failed" /\ cause[i] \in EarlyCauses
              /\ pc[j] = "Done")
             => /\ HoldsLineOf(j)
                /\ \E k \in 1..Len(log[j]) :
                      log[j][k] = Op("update", Entry(manifest, j).version))

\* C11 witness: the run has ended with one worker failed at the extraction
\* and another Done.
C11_Witness ==
    /\ main_pc = "exited"
    /\ \E i, j \in AddonIds :
          /\ pc[i] = "Failed" /\ cause[i] = "extract"
          /\ pc[j] = "Done"
          /\ HoldsLineOf(j)

\* C12: once the orchestrator is past the join loop, every worker it spawned
\* (one per key of the manifest) is UpToDate, Done or Failed, and no worker
\* can take any further step: nothing is fetched, erased, extracted or
\* committed from then on.
C12_JoinAll ==
    main_pc = "exited" =>
        /\ \A t \in AddonIds : HasKey(manifest, t) => pc[t] \in Terminal
        /\ \A t \in AddonIds : ~HasKey(manifest, t) => pc[t] = "idle"
        /\ \A t \in AddonIds : ~ENABLED WorkerStep(t)
        /\ manifest_lock = 0

\* C12 witness: the orchestrator is past the join with one worker Done and
\* another UpToDate.
C12_Witness ==
    /\ main_pc = "exited"
    /\ \E t, u \in AddonIds : pc[t] = "Done" /\ pc[u] = "UpToDate"

\* Any step of the running program: a statement of the module-level code or
\* of a worker. Starting the program again is the user's step, not the
\* program's.
ProgramStep ==
    \/ LoadManifest \/ QueryVersion \/ QueryVersionFail \/ CompareStamp
    \/ UpdateStamp \/ SpawnThread \/ SpawnDone \/ JoinThread \/ Exit
    \/ \E t \in AddonIds : WorkerStep(t)

\* The program under a fair scheduler with external calls that return or
\* fail: while some thread can take a step, a step is eventually taken.
FairSpec == Init /\ [][Next]_vars /\ WF_vars(ProgramStep)

\* C13: a run that has passed the stamp check eventually is past the join
\* loop (and so ends with status 0) with every spawned worker terminal and
\* the lock free, whatever the workers' outcomes, a commit that raised
\* inside the locked section included.
C13_Termination ==
    (main_pc = "update_stamp")
    ~> (/\ main_pc = "exited"
        /\ \A t \in AddonIds : HasKey(manifest, t) => pc[t] \in Terminal
        /\ manifest_lock = 0)

\* C13 witness: the run has ended with status 0 although the commit of one
\* worker raised inside the locked section, and another worker got the lock
\* and is Done.
C13_Witness ==
    /\ main_pc = "exited"
    /\ \E t, u \in AddonIds :
          /\ pc[t] = "Failed" /\ cause[t] = "commit"
          /\ pc[u] = "Done"

\* ------------------------------------------------- one worker, wider inputs
\* What worker t has logged by the time it is at `where` on the way to a
\* commit of `version`.
LogAt(where, version) ==
    LET installed == <<Op("query", Ok), Op("select", Differs), Op("fetch", Ok),
                       Op("erase", Ok), Op("extract", Ok)>>
    IN IF where = "query" THEN <<>>
       ELSE IF where = "update" THEN installed
       ELSE installed \o <<Op("update", version)>>

\* A state in the middle of a run started with -f and -g flavor: the
\* orchestrator waits in the join loop for the one worker it spawned, that of
\* addon 1, which is at `where` with `latest` as its selected release; m is
\* the manifest in memory, f the file the run loaded, old the version the
\* worker read at its start.
OneWorker(m, f, where, old, latest, flavor) ==
    /\ file = f
    /\ file0 = f
    /\ run = 1
    /\ main_pc = "join"
    /\ forced_update = TRUE
    /\ game_flavor = flavor
    /\ manifest = m
    /\ manifest0 = LoadedManifest(f)
    /\ api_db_version = m.version
    /\ loop_idx = 1
    /\ manifest_lock = (IF where = "query" THEN 0 ELSE 1)
    /\ pc = [t \in AddonIds |-> IF t = 1 THEN where ELSE "idle"]
    /\ installed_version = [t \in AddonIds |-> IF t = 1 THEN old ELSE <<>>]
    /\ install_alpha = [t \in AddonIds |->
                           IF t = 1 THEN Entry(m, 1).install_alpha ELSE FALSE]
    /\ addon_info = [t \in AddonIds |-> <<>>]
    /\ latest_file = [t \in AddonIds |-> IF t = 1 THEN latest ELSE None]
    /\ wbuf = [t \in AddonIds |-> <<>>]
    /\ witer = [t \in AddonIds |-> 1]
    /\ cause = [t \in AddonIds |-> "none"]
    /\ log = [t \in AddonIds |->
                 IF t = 1 THEN LogAt(where, Entry(m, 1).version) ELSE <<>>]
    /\ prev = NoPrev

\* A manifest of the one entry of addon 1.
OneEntry(stamp, flag, version) ==
    [has_version |-> TRUE, version |-> stamp, keys |-> <<1>>,
     addons |-> <<[install_alpha |-> flag, version |-> version]>>]

\* ----------------------------------------------------------- get_latest_file
MaxFiles == 3       \* length of latestFiles when get_latest_file is checked

\* The releases latestFiles is drawn from then: two display names, two
\* dates, stable and beta, both flavors; so that lists hold releases that
\* differ in nothing but the name, and ties in the date.
SelectorPool ==
    { Release(<<n>>, d, ty, fl) :
        n \in {"a", "b"}, d \in {1, 2}, ty \in {1, 2}, fl \in Flavors }

SelectorResponses == SeqsUpTo(SelectorPool, MaxFiles)

\* The worker of addon 1 is about to query the catalog.
SelectorInit ==
    \E flag \in BOOLEAN, flavor \in Flavors :
        OneWorker(OneEntry(<<"s">>, flag, <<"a">>),
                  MkFile(Serialize(OneEntry(<<"s">>, flag, <<"a">>))),
                  "query", <<"a">>, None, flavor)

\* get_addon_info answers and get_latest_file is applied to the answer.
SelectLatest == QueryAndSelect(1, SelectorResponses)

SelectorSpec == SelectorInit /\ [][SelectLatest]_vars

\* The reference rule: a release passes when its platform variant is the
\* requested one and it is stable-equivalent or alphas are allowed.
Passes(r, allowAlpha, variant) ==
    /\ r.gameVersionFlavor = variant
    /\ (r.releaseType = 1 \/ allowAlpha)

Passing(files, allowAlpha, variant) ==
    {i \in 1..Len(files) : Passes(files[i], allowAlpha, variant)}

\* The first in the list among the passing releases of maximum date.
FirstOfLatest(files, P) ==
    CHOOSE i \in P :
        \A j \in P : \/ files[j].fileDate < files[i].fileDate
                     \/ (files[j].fileDate = files[i].fileDate /\ i <= j)

\* C14: whenever a worker holds the result of get_latest_file for the list it
\* was answered, that result is None exactly when no release of the list
\* passes the filter, and else is the first-in-list release of maximum date
\* among those that pass; the result is that of applying get_latest_file to
\* the same inputs again.
C14_SelectLatest ==
    \A t \in AddonIds :
        pc[t] = "version" =>
            LET P == Passing(addon_info[t], install_alpha[t], game_flavor) IN
            /\ (latest_file[t] = None) <=> (P = {})
            /\ P # {} => latest_file[t] = Some(addon_info[t][FirstOfLatest(addon_info[t], P)])
            /\ latest_file[t] =
                  get_latest_file(addon_info[t], install_alpha[t], game_flavor)

\* C14 witness: the list held two passing releases of the same, maximum
\* date that differ in their names, after a later-listed older one, and the
\* first of the two was selected.
C14_Witness ==
    /\ pc[1] = "version"
    /\ Len(addon_info[1]) = 3
    /\ LET f == addon_info[1] IN
       /\ \A i \in 1..3 : Passes(f[i], install_alpha[1], game_flavor)
       /\ f[1].fileDate < f[2].fileDate
       /\ f[2].fileDate = f[3].fileDate
       /\ f[2] # f[3]
       /\ latest_file[1] = Some(f[2])

\* -------------------------------------------------------- commit, then load
MaxEntries == 2     \* number of entries of a manifest when commit is checked

\* Addon ids, one of them of two digits; stamps, one of them with a space
\* inside; versions: whitespace-free tokens and the empty string, which
\* get_version yields for an empty display name.
RoundTripIds == {1, 2, 10}

RoundTripStamps == {<<"s">>, <<"s", " ", "t">>}

RoundTripVersions == {<<>>, <<"a">>, <<"a", "_">>}

\* The orders in which a dict can hold up to MaxEntries of the ids, that of
\* the committing worker among them.
RoundTripKeys ==
    { ks \in SeqsUpTo(RoundTripIds, MaxEntries) :
        /\ \E i \in 1..Len(ks) : ks[i] = 1
        /\ \A i, j \in 1..Len(ks) : ks[i] = ks[j] => i = j }

RoundTripManifests ==
    UNION { { [has_version |-> TRUE, version |-> st, keys |-> ks, addons |-> es] :
                st \in RoundTripStamps,
                es \in [1..Len(ks) -> [install_alpha : BOOLEAN,
                                       version : RoundTripVersions]] } :
            ks \in RoundTripKeys }

\* The file the run loaded: every entry at an older version.
OlderFile(m) ==
    MkFile(<<(<<"r">>)>> \o
           [k \in 1..Len(m.keys) |->
               InitialLine(m.keys[k],
                           IF m.addons[k].install_alpha THEN "1" ELSE "0",
                           <<"o">>)])

\* The worker of addon 1 has called update_version and is about to commit.
RoundTripInit ==
    \E m \in RoundTripManifests :
        OneWorker(m, OlderFile(m), "commit_open", <<"o">>,
                  Some(Release(Entry(m, 1).version, 1,
                               IF Entry(m, 1).install_alpha THEN 2 ELSE 1,
                               DefaultFlavor)),
                  DefaultFlavor)

RoundTripNext ==
    \/ CommitOpen(1)
    \/ CommitWriteHeader(1)
    \/ CommitWriteEntry(1)
    \/ CommitClose(1)

RoundTripSpec == RoundTripInit /\ [][RoundTripNext]_vars

\* C15: once commit has returned, the constructor loads the file without
\* raising, and what it loads has the stamp, the ids in their order, the
\* flags and the versions of the manifest that was committed.
C15_RoundTrip ==
    pc[1] = "Done" =>
        /\ LoadStatus(file) = "ok"
        /\ LoadedManifest(file).version = manifest.version
        /\ LoadedManifest(file).keys = manifest.keys
        /\ LoadedManifest(file).addons = manifest.addons

\* Where C15 fails an entry holds the empty version: with every version
\* non-empty, commit followed by load gives the manifest back.
RoundTripWhenVersionsNonEmpty ==
    (\A k \in 1..Len(manifest.keys) : manifest.addons[k].version # <<>>)
    => C15_RoundTrip

\* -------------------------------------------------- get_version, to the file
MaxNameLen == 3     \* length of a display name when get_version is checked

\* The characters of a display name: a letter, the space, the tab.
NameChars == {"a", " ", "\t"}

DisplayNames == UNION { [1..n -> NameChars] : n \in 1..MaxNameLen }

\* The worker of addon 1 has installed a release of some display name and
\* holds the lock, about to call update_version.
VersionInit ==
    \E name \in DisplayNames, flag \in BOOLEAN :
        OneWorker(OneEntry(<<"s">>, flag, <<"o">>),
                  MkFile(Serialize(OneEntry(<<"r">>, flag, <<"o">>))),
                  "update", <<"o">>,
                  Some(Release(name, 1, IF flag THEN 2 ELSE 1, DefaultFlavor)),
                  DefaultFlavor)

VersionNext ==
    \/ UpdateVersion(1)
    \/ CommitOpen(1)
    \/ CommitWriteHeader(1)
    \/ CommitWriteEntry(1)
    \/ CommitClose(1)

VersionSpec == VersionInit /\ [][VersionNext]_vars

\* The version worker t handed to update_version.
Recorded(t) ==
    (CHOOSE e \in {log[t][i] : i \in 1..Len(log[t])} : e.op = "update").arg

\* C16: the version token a worker records for a display name is
\* get_version of that name alone and holds no whitespace character; and
\* once its commit has returned, the file loads and the version it loads for
\* the item is exactly that token.
C16_VersionToken ==
    \A t \in AddonIds :
        /\ (Did(t, "update") /\ latest_file[t] # None) =>
              /\ Recorded(t) = get_version(latest_file[t][1])
              /\ Entry(manifest, t).version = Recorded(t)
              /\ NoWhitespace(Recorded(t))
        /\ pc[t] = "Done" =>
              /\ NoWhitespace(Recorded(t))
              /\ LoadStatus(file) = "ok"
              /\ HasKey(LoadedManifest(file), t)
              /\ Entry(LoadedManifest(file), t).version = Recorded(t)

\* Where C16 fails the display name holds a whitespace character other than
\* the space: for names of letters and spaces the token is whitespace-free
\* and reloads as recorded.
VersionTokenWhenOnlySpaces ==
    (\A t \in AddonIds : \A i \in 1..Len(log[t]) :
        log[t][i].op = "update" => NoWhitespace(log[t][i].arg))
    => C16_VersionToken

\* No worker was started and nothing was done to the catalog, the AddOns
\* directory or the manifest file in this run.
NothingDone ==
    /\ \A t \in AddonIds : pc[t] = "idle" /\ log[t] = <<>>
    /\ manifest_lock = 0
    /\ file = file0

\* C17: a run whose manifest file exists and does not parse never gets past
\* the load, and a run whose catalog-version query failed never gets past
\* the query: either way the run has died with no worker spawned, no item
\* query, fetch, erase or extract performed, and the file as it was.
C17_TopLevelAbort ==
    /\ LoadStatus(file0) = "raise" =>
          /\ main_pc \in {"load", "crashed"}
          /\ NothingDone
    /\ (api_db_version = <<>> /\ main_pc \notin {"load", "query_version"}) =>
          /\ main_pc = "crashed"
          /\ NothingDone

\* C17 witness: the run loaded a manifest with addons in it and died at the
\* catalog-version query.
C17_Witness ==
    /\ main_pc = "crashed"
    /\ LoadStatus(file0) = "ok"
    /\ api_db_version = <<>>
    /\ Len(manifest.keys) > 0

\* The operations worker t has logged, in order.
Ops(t) == [i \in 1..Len(log[t]) |-> log[t][i].op]

\* The order of the operations of a worker that updates its item.
UpdateOrder ==
    <<"query", "select", "fetch", "erase", "extract", "update", "commit">>

\* A logged operation after which process_addon goes on to the next one: a
\* comparison that found the versions different, any other call that
\* returned.
GoesOn(e) ==
    IF e.op = "select" THEN e.arg = Differs
    ELSE IF e.op = "update" THEN TRUE
    ELSE e.arg = Ok

\* Worker t is at the fetch or past it, and has not ended.
PastSelection(t) ==
    pc[t] \in {"download", "erase", "extract", "acquire"} \/ InCritical(t)

\* C18: what a worker has done is a prefix of query, select, fetch, erase,
\* extract, update, commit (or query and a selection of None), and every
\* operation but the last went on: the fetch follows a comparison that found
\* the versions different, the erase a fetch that returned an artifact, the
\* update an extraction that did not raise. A worker at the fetch or past it
\* holds a derived version different from the installed one it read, and the
\* version it records differs from the one loaded; a worker whose comparison
\* found them equal is UpToDate having done the query and the selection and
\* nothing else; a worker whose fetch failed has erased nothing.
C18_StepsOrdered ==
    \A t \in AddonIds :
        /\ \/ Ops(t) = SubSeq(UpdateOrder, 1, Len(log[t]))
           \/ Ops(t) = <<"query", "select_none">>
        /\ \A i \in 1..(Len(log[t]) - 1) : GoesOn(log[t][i])
        /\ PastSelection(t) =>
              /\ latest_file[t] # None
              /\ get_version(latest_file[t][1]) # installed_version[t]
              /\ installed_version[t] = Entry(manifest0, t).version
        /\ Did(t, "update") => Recorded(t) # Entry(manifest0, t).version
        /\ pc[t] = "UpToDate" <=>
              log[t] = <<Op("query", Ok), Op("select", Same)>>
        /\ (pc[t] = "Failed" /\ cause[t] = "fetch")
           => log[t] = <<Op("query", Ok), Op("select", Differs), Op("fetch", Err)>>

\* C18 witness: one worker went through all seven operations, another failed
\* at the fetch.
C18_Witness ==
    \E t, u \in AddonIds :
        /\ Ops(t) = UpdateOrder /\ pc[t] = "Done"
        /\ pc[u] = "Failed" /\ cause[u] = "fetch"

\* The step changes nothing of the manifest in memory but the version of
\* the entry of t.
ChangesOnlyVersionOf(t) ==
    /\ manifest'.has_version = manifest.has_version
    /\ manifest'.version = manifest.version
    /\ manifest'.keys = manifest.keys
    /\ Len(manifest'.addons) = Len(manifest.addons)
    /\ \A k \in 1..Len(manifest.keys) :
          /\ manifest'.addons[k].install_alpha = manifest.addons[k].install_alpha
          /\ manifest.keys[k] # t => manifest'.addons[k] = manifest.addons[k]

\* C19: once the workers are spawned, the manifest in memory changes only in
\* a step of a worker t that holds the lock, has not changed it before in
\* this run, changes the version of its own entry and nothing else, and goes
\* on, the lock still held, to commit; a commit that returns has written the
\* whole manifest; a worker that has changed its entry is in that commit, or
\* Done, or Failed by that commit raising; and what a worker has read of its
\* entry without the lock is the entry as loaded before the run.
C19_EntryOwnership ==
    /\ [][(manifest' # manifest /\ main_pc \in {"spawn", "join", "exited"}
             /\ run' = run)
          => \E t \in AddonIds :
                /\ pc[t] = "update" /\ manifest_lock = t
                /\ ~Did(t, "update")
                /\ ChangesOnlyVersionOf(t)
                /\ pc'[t] = "commit_open" /\ manifest_lock' = t]_vars
    /\ [][\A t \in AddonIds :
             (pc[t] = "commit_entries" /\ pc'[t] = "Done")
             => file' = MkFile(Serialize(manifest))]_vars
    /\ [](\A t \in AddonIds :
             Did(t, "update") =>
                \/ InCritical(t) /\ manifest_lock = t
                \/ pc[t] = "Done"
                \/ pc[t] = "Failed" /\ cause[t] = "commit")
    /\ [](\A t \in AddonIds :
             pc[t] \in {"query", "version"} =>
                /\ installed_version[t] = Entry(manifest0, t).version
                /\ install_alpha[t] = Entry(manifest0, t).install_alpha)

\* C19 witness: one worker has changed its own entry and committed while
\* another, whose entry has the alpha flag set, holds what it read of its
\* entry without the lock.
C19_Witness ==
    \E t, u \in AddonIds :
        /\ t # u
        /\ pc[t] = "Done" /\ Entry(manifest, t) # Entry(manifest0, t)
        /\ pc[u] = "version" /\ installed_version[u] = Entry(manifest0, u).version
        /\ Entry(manifest0, u).install_alpha

\* C20: whenever the lock is free and some worker's commit has returned in
\* this run, the file loads and what it loads is the manifest in memory,
\* with the stamp fetched in this run.
C20_DiskEqualsMemory ==
    (manifest_lock = 0 /\ \E t \in AddonIds : pc[t] = "Done")
    => /\ LoadStatus(file) = "ok"
       /\ LoadedManifest(file) = manifest
       /\ LoadedManifest(file).version = api_db_version

\* Where C20 fails, a recorded version token holds whitespace, or a worker
\* changed its entry in memory and its commit then raised: without either,
\* file and memory agree whenever the lock is free after a commit.
DiskEqualsMemoryWhenCommitsSucceed ==
    (/\ \A t \in AddonIds : \A i \in 1..Len(log[t]) : NoWhitespace(log[t][i].arg)
     /\ \A t \in AddonIds : cause[t] # "commit")
    => C20_DiskEqualsMemory

\* With whitespace-free tokens alone it does not hold: a worker whose commit
\* raised leaves its new version in memory and the old one in the file.
DiskEqualsMemoryWhenWhitespaceFree ==
    (\A t \in AddonIds : \A i \in 1..Len(log[t]) : NoWhitespace(log[t][i].arg))
    => C20_DiskEqualsMemory

====
